---- MODULE Spec2Model ----
(***************************************************************************)
(* A model of the read-only FAT16 decoder of shinrabansyo/fat16_test:      *)
(* src/src/fat.rs (BPB and directory-entry decoders), src/src/fat16.rs     *)
(* (facade, allocation table, cluster access, path resolution) and         *)
(* src/src/utils.rs (Path).                                                *)
(*                                                                         *)
(* Conventions.                                                            *)
(*  - A byte buffer (&[u8], Vec<u8>) is a sequence of 0..255; Rust offset  *)
(*    o is index o+1 here.  Slice(b, lo, hi) is b[lo..hi].                 *)
(*  - A String is the sequence of its code points.                         *)
(*  - A Result is Ok(v), Err(message) or Panic; Panic stands for a Rust    *)
(*    panic (index out of bounds, arithmetic overflow, division by zero),  *)
(*    which is a fault of the call, not a value returned to the caller.    *)
(*  - Option: None, or Some(v).                                            *)
(***************************************************************************)
EXTENDS Integers, Sequences, FiniteSets, TLC

VARIABLES
    \* ---- the facade and one call on it (fat16.rs) ----
    image,      \* the input buffer handed to Fat16::new, as its parameters
    fs,         \* the Fat16 value built by Fat16::new (NoFs before/without it)
    openResult, \* outcome of Fat16::new: "none" | "Ok" | "Err" | "Panic"
    pc,         \* position: "closed" | "idle" | "find" | "chain" | "read" | "done"
    op,         \* "read_file" | "read_directory" | "none"
    path,       \* the &str handed to Path::from
    dirs,       \* path.parse(): the segments
    seg,        \* index (1-based) of the segment being resolved
    entry,      \* find_dir_entry's current directory listing
    target,     \* the FatDirEntry whose cluster chain is being followed
    mode,       \* why the chain is followed: "descend" | "file" | "list" | "none"
    chain,      \* get_cluster_chain's `chain`
    cluster,    \* get_cluster_chain's `cluster`
    k,          \* index of the next element of chain handed to read_cluster
    acc,        \* read_file's `file` / read_dir_entry's `dirs`
    result,     \* outcome of the call
    reads,      \* history: the cluster numbers handed to read_cluster by the call
    overflow_checks, \* build profile: TRUE = debug (overflow panics), FALSE = release (wraps)
    \* ---- one call of FatDirEntry::parses on a byte region (fat.rs) ----
    region,     \* `bytes`
    num_entry,  \* `num_entry`
    dpc,        \* "start" | "done" | "off"
    dresult     \* outcome of parses

vars == <<image, fs, openResult, pc, op, path, dirs, seg, entry, target, mode,
          chain, cluster, k, acc, result, reads, overflow_checks,
          region, num_entry, dpc, dresult>>

facadeVars == <<image, fs, openResult, pc, op, path, dirs, seg, entry, target, mode,
                chain, cluster, k, acc, result, reads, overflow_checks>>

decoderVars == <<region, num_entry, dpc, dresult>>

-----------------------------------------------------------------------------
(* Result / Option *)

Ok(v) == [tag |-> "Ok", val |-> v]

Err(e) == [tag |-> "Err", err |-> e]

Panic == [tag |-> "Panic"]

None == [some |-> FALSE]

Some(v) == [some |-> TRUE, val |-> v]

NoResult == [tag |-> "none"]

\* `let x = v; F(x)`: v is evaluated once and F applied to its value
Bind(v, F(_)) == CHOOSE out \in {F(x) : x \in {v}} : TRUE

-----------------------------------------------------------------------------
(* Byte cursor utilities *)

Slice(b, lo, hi) == SubSeq(b, lo + 1, hi)

From(b, lo) == SubSeq(b, lo + 1, Len(b))

u16_from_le_bytes(b, off) == b[off + 1] + 256 * b[off + 2]

u32_from_le_bytes(b, off) ==
    b[off + 1] + 256 * b[off + 2] + 65536 * b[off + 3] + 16777216 * b[off + 4]

\* str::to_ascii_lowercase on the code points of a string
to_ascii_lowercase(s) ==
    [i \in 1..Len(s) |-> IF s[i] >= 65 /\ s[i] <= 90 THEN s[i] + 32 ELSE s[i]]

\* char::is_whitespace, for the code points String::from_utf8_lossy yields here
is_whitespace(c) == c \in {9, 10, 11, 12, 13, 32, 133, 160}

RECURSIVE trim_start(_)
trim_start(s) ==
    IF s # <<>> /\ is_whitespace(s[1]) THEN trim_start(Tail(s)) ELSE s

RECURSIVE trim_end(_)
trim_end(s) ==
    IF s # <<>> /\ is_whitespace(s[Len(s)])
    THEN trim_end(SubSeq(s, 1, Len(s) - 1)) ELSE s

\* str::trim: both ends
trim(s) == trim_end(trim_start(s))

\* String::from_utf8_lossy of bytes none of which starts a valid multi-byte
\* sequence: an ASCII byte is its own code point, a stray byte >= 0x80 is U+FFFD.
from_utf8_lossy(b) == [i \in 1..Len(b) |-> IF b[i] < 128 THEN b[i] ELSE 65533]

\* String::from_utf16: Err on an unpaired surrogate
RECURSIVE from_utf16(_)
from_utf16(u) ==
    IF u = <<>> THEN Ok(<<>>)
    ELSE IF u[1] < 55296 \/ u[1] > 57343
    THEN LET r == from_utf16(Tail(u))
         IN IF r.tag = "Ok" THEN Ok(<<u[1]>> \o r.val) ELSE r
    ELSE IF u[1] <= 56319 /\ Len(u) >= 2 /\ u[2] >= 56320 /\ u[2] <= 57343
    THEN LET r == from_utf16(Tail(Tail(u)))
             c == 65536 + (u[1] - 55296) * 1024 + (u[2] - 56320)
         IN IF r.tag = "Ok" THEN Ok(<<c>> \o r.val) ELSE r
    ELSE Err("FromUtf16Error")

-----------------------------------------------------------------------------
(* Date / time decoder (fat.rs) *)

FatDate(date) ==
    [year  |-> ((date \div 512) % 128) + 1980,
     month |-> (date \div 32) % 16,
     day   |-> date % 32]

FatTime(time, tenths_of_second) ==
    [hour   |-> (time \div 2048) % 32,
     minute |-> (time \div 32) % 64,
     second |-> ((time % 32) * 2) % 256,
     tenths_of_second |-> tenths_of_second]

-----------------------------------------------------------------------------
(* Directory entry decoder (fat.rs) *)

\* the 13 UTF-16 code units of an LFN slot, offsets 1..11, 14..26, 28..32
text_bytes(bytes) ==
    << u16_from_le_bytes(bytes, 1),  u16_from_le_bytes(bytes, 3),
       u16_from_le_bytes(bytes, 5),  u16_from_le_bytes(bytes, 7),
       u16_from_le_bytes(bytes, 9),  u16_from_le_bytes(bytes, 14),
       u16_from_le_bytes(bytes, 16), u16_from_le_bytes(bytes, 18),
       u16_from_le_bytes(bytes, 20), u16_from_le_bytes(bytes, 22),
       u16_from_le_bytes(bytes, 24), u16_from_le_bytes(bytes, 28),
       u16_from_le_bytes(bytes, 30) >>

\* text.find('\0').map(|idx| &text[..idx]).unwrap_or(&text)
RECURSIVE cut_at_nul(_)
cut_at_nul(text) ==
    IF text = <<>> \/ text[1] = 0 THEN <<>>
    ELSE <<text[1]>> \o cut_at_nul(Tail(text))

\* the loop of parse_lfn with each fragment's text appended to the accumulator
\* instead of prepended
RECURSIVE lfn_loop_append(_, _)
lfn_loop_append(bytes, text) ==
    IF Len(bytes) < 12 THEN Panic
    ELSE IF bytes[12] # 15 THEN Ok(<<text, bytes>>)
    ELSE Bind(from_utf16(text_bytes(bytes)), LAMBDA d :
            IF d.tag # "Ok" THEN d
            ELSE lfn_loop_append(From(bytes, 32), text \o d.val))

\* the `while bytes[11] == 0x0f` loop of parse_lfn; bytes[11] on a slice shorter
\* than 12 bytes panics
RECURSIVE lfn_loop(_, _)
lfn_loop(bytes, text) ==
    IF Len(bytes) < 12 THEN Panic
    ELSE IF bytes[12] # 15 THEN Ok(<<text, bytes>>)
    ELSE Bind(from_utf16(text_bytes(bytes)), LAMBDA d :
            IF d.tag # "Ok" THEN d
            ELSE lfn_loop(From(bytes, 32), d.val \o text))

\* (Option<String>, rest)
parse_lfn(bytes) ==
    IF Len(bytes) < 12 THEN Panic
    ELSE IF bytes[12] # 15 THEN Ok(<<None, bytes>>)
    ELSE Bind(lfn_loop(bytes, <<>>), LAMBDA r :
            IF r.tag # "Ok" THEN r
            ELSE Ok(<<Some(cut_at_nul(r.val[1])), r.val[2]>>))

\* the FatDirEntry built from a short-name slot (fat.rs 141-155)
sfn_entry(bytes) ==
    [name |-> trim(from_utf8_lossy(Slice(bytes, 0, 8))) \o <<46>>
              \o trim(from_utf8_lossy(Slice(bytes, 8, 11))),
     attribute |-> bytes[12],
     reserved |-> bytes[13],
     creation_time |-> FatTime(u16_from_le_bytes(bytes, 14), bytes[14]),
     creation_date |-> FatDate(u16_from_le_bytes(bytes, 16)),
     last_access_date |-> FatDate(u16_from_le_bytes(bytes, 18)),
     last_modify_time |-> FatTime(u16_from_le_bytes(bytes, 22), 0),
     last_modify_date |-> FatDate(u16_from_le_bytes(bytes, 24)),
     first_cluster |-> u16_from_le_bytes(bytes, 26),
     file_size |-> u32_from_le_bytes(bytes, 28)]

\* parse_sfn without the 0xE5 test: a deleted slot is decoded like a live one
parse_sfn_keep_deleted(bytes) ==
    IF Len(bytes) < 32 THEN Panic
    ELSE IF bytes[1] = 0 THEN Ok(<<None, bytes>>)
    ELSE Ok(<<Some(sfn_entry(bytes)), From(bytes, 32)>>)

\* (Option<FatDirEntry>, rest): a slot starting 0x00 or 0xE5 gives None and
\* does not advance
parse_sfn(bytes) ==
    IF Len(bytes) < 32 THEN Panic
    ELSE IF bytes[1] = 0 \/ bytes[1] = 229 THEN Ok(<<None, bytes>>)
    ELSE Ok(<<Some(sfn_entry(bytes)), From(bytes, 32)>>)

parse_entry(bytes) ==
    Bind(parse_lfn(bytes), LAMBDA l :
        IF l.tag # "Ok" THEN l
        ELSE Bind(parse_sfn(l.val[2]), LAMBDA s :
                IF s.tag # "Ok" THEN s
                ELSE IF s.val[1].some /\ l.val[1].some
                     THEN Ok(<< Some([s.val[1].val EXCEPT !.name = l.val[1].val]),
                                s.val[2] >>)
                     ELSE s))

\* the loop of parses halting at the first short-name slot that starts 0x00
RECURSIVE parses_loop_halt(_, _)
parses_loop_halt(dir_bytes, entries) ==
    IF Len(dir_bytes) = 0 THEN Ok(entries)
    ELSE Bind(parse_entry(dir_bytes), LAMBDA r :
            IF r.tag # "Ok" THEN r
            ELSE IF r.val[1].some
                 THEN parses_loop_halt(r.val[2], Append(entries, r.val[1].val))
                 ELSE IF r.val[2][1] = 0 THEN Ok(entries)
                 ELSE parses_loop_halt(From(dir_bytes, 32), entries))

\* the `while dir_bytes.len() > 0` loop of parses
RECURSIVE parses_loop(_, _)
parses_loop(dir_bytes, entries) ==
    IF Len(dir_bytes) = 0 THEN Ok(entries)
    ELSE Bind(parse_entry(dir_bytes), LAMBDA r :
            IF r.tag # "Ok" THEN r
            ELSE IF r.val[1].some
                 THEN parses_loop(r.val[2], Append(entries, r.val[1].val))
                 ELSE parses_loop(From(dir_bytes, 32), entries))

\* (Vec<FatDirEntry>, rest); num_entry is a u16, and the error message computes
\* num_entry * 32 in u16
parses(bytes, n, checks) ==
    IF n * 32 > Len(bytes)
    THEN IF n * 32 > 65535 /\ checks THEN Panic
         ELSE Err("'bytes' must be larger")
    ELSE Bind(parses_loop(Slice(bytes, 0, n * 32), <<>>), LAMBDA r :
            IF r.tag # "Ok" THEN r
            ELSE Ok(<<r.val, From(bytes, n * 32)>>))

-----------------------------------------------------------------------------
(* BPB, extended BPB and allocation table decoders (fat.rs, fat16.rs) *)

\* FatBPB::parse: every field is a slice of bytes[0..36]; a shorter buffer
\* panics at the first slice that leaves it
FatBPB_parse(bytes) ==
    IF Len(bytes) < 36 THEN Panic
    ELSE Ok(<< [x86_jmp |-> Slice(bytes, 0, 3),
                oem_name |-> Slice(bytes, 3, 11),
                bytes_per_sector |-> u16_from_le_bytes(bytes, 11),
                sectors_per_cluster |-> bytes[14],
                reserved_sector_count |-> u16_from_le_bytes(bytes, 14),
                num_fats |-> bytes[17],
                root_entry_count |-> u16_from_le_bytes(bytes, 17),
                total_sectors |-> u16_from_le_bytes(bytes, 19),
                media |-> bytes[22],
                sectors_per_fat |-> u16_from_le_bytes(bytes, 22),
                sectors_per_track |-> u16_from_le_bytes(bytes, 24),
                num_heads |-> u16_from_le_bytes(bytes, 26),
                hidden_sectors |-> u32_from_le_bytes(bytes, 28),
                large_sectors |-> u32_from_le_bytes(bytes, 32)],
               From(bytes, 36) >>)

\* Fat16EBPB::parse: 476 bytes; boot_code (448 bytes no operation reads) is
\* kept by its length only
Fat16EBPB_parse(bytes) ==
    IF Len(bytes) < 476 THEN Panic
    ELSE Ok(<< [drive_number |-> bytes[1],
                reserved1 |-> bytes[2],
                boot_signature |-> bytes[3],
                volume_id |-> u32_from_le_bytes(bytes, 3),
                volume_label |-> Slice(bytes, 7, 18),
                file_system_type |-> Slice(bytes, 18, 26),
                boot_code_len |-> Len(Slice(bytes, 26, 474)),
                boot_partition_signature |-> Slice(bytes, 474, 476)],
               From(bytes, 476) >>)

\* Fat16AllocTable::parse: table[c + 1] is the link of cluster c
Fat16AllocTable_parse(bytes, bpb) ==
    LET fat_size == bpb.num_fats * bpb.sectors_per_fat * bpb.bytes_per_sector
        src == IF bpb.total_sectors = 0 THEN bpb.large_sectors ELSE bpb.total_sectors
    IN IF bpb.sectors_per_cluster = 0 THEN Panic        \* division by zero
       ELSE LET fat_entry_cnt == src \div bpb.sectors_per_cluster
            IN IF fat_entry_cnt * 2 > Len(bytes) THEN Panic   \* bytes[offset..offset+2]
               ELSE IF fat_size > Len(bytes) THEN Panic       \* bytes[fat_size..]
               ELSE Ok(<< [id \in 1..fat_entry_cnt |->
                              u16_from_le_bytes(bytes, (id - 1) * 2)],
                          From(bytes, fat_size) >>)

\* Fat16::new, from the bytes read from the file
Fat16_new(bytes, checks) ==
    Bind(FatBPB_parse(bytes), LAMBDA b :
      IF b.tag # "Ok" THEN b
      ELSE Bind(Fat16EBPB_parse(b.val[2]), LAMBDA e :
        IF e.tag # "Ok" THEN e
        ELSE Bind(Fat16AllocTable_parse(e.val[2], b.val[1]), LAMBDA a :
          IF a.tag # "Ok" THEN a
          ELSE Bind(parses(a.val[2], b.val[1].root_entry_count, checks), LAMBDA r :
            IF r.tag # "Ok" THEN r
            ELSE Ok([bpb |-> b.val[1],
                     ebpb |-> e.val[1],
                     alloc_table |-> a.val[1],
                     root_dir |-> r.val[1],
                     clusters |-> r.val[2]])))))

-----------------------------------------------------------------------------
(* Cluster access and path utility (fat16.rs, utils.rs) *)

bytes_per_cluster(f) == f.bpb.bytes_per_sector * f.bpb.sectors_per_cluster

\* Fat16::read_cluster.  usize arithmetic: for cluster_number < 2 the
\* subtraction overflows; with overflow checks it panics, without them it wraps.
\* A wrapped value 2^64 + v (v < 0) is written v here: head + bytes_per_cluster
\* is then either still wrapped (larger than any length) or exactly 0, and a
\* slice head..0 with head > 0 panics.
read_cluster(f, cluster_number, checks) ==
    LET bpc == bytes_per_cluster(f)
        head == (cluster_number - 2) * bpc
        end == head + bpc
    IN IF cluster_number < 2 /\ checks THEN Panic
       ELSE IF end < 0 \/ end > Len(f.clusters)
       THEN Err("Cluster number out of range")
       ELSE IF head < 0 THEN Panic
       ELSE Ok(Slice(f.clusters, head, end))

\* one turn of get_cluster_chain's loop body: the lookup self.table[cluster]
table_lookup(f, c) ==
    IF c >= Len(f.alloc_table) THEN Panic ELSE Ok(f.alloc_table[c + 1])

\* str::split('/')
RECURSIVE split(_)
split(s) ==
    IF \A i \in 1..Len(s) : s[i] # 47 THEN <<s>>
    ELSE LET i == CHOOSE j \in 1..Len(s) :
                      s[j] = 47 /\ \A h \in 1..(j - 1) : s[h] # 47
         IN <<SubSeq(s, 1, i - 1)>> \o split(SubSeq(s, i + 1, Len(s)))

\* Path::from that keeps the letter case of the string
Path_from_keep_case(s) == s

\* Path::from: the lowercased string
Path_from(s) == to_ascii_lowercase(s)

\* Path::parse: abs_path[1..] panics on the empty string
Path_parse(abs_path) ==
    IF Len(abs_path) < 1 THEN Panic ELSE Ok(split(From(abs_path, 1)))

\* find that falls back to the first entry when no name matches
find_or_first(entries, dir) ==
    LET hits == {i \in 1..Len(entries) : to_ascii_lowercase(entries[i].name) = dir}
    IN IF entries = <<>> THEN None
       ELSE IF hits = {} THEN Some(entries[1])
       ELSE Some(entries[CHOOSE i \in hits : \A j \in hits : i <= j])

\* entry.iter().find(|e| &e.name.to_ascii_lowercase() == dir)
find(entries, dir) ==
    LET hits == {i \in 1..Len(entries) : to_ascii_lowercase(entries[i].name) = dir}
    IN IF hits = {} THEN None
       ELSE Some(entries[CHOOSE i \in hits : \A j \in hits : i <= j])

\* truncate that leaves the vector as it is
truncate_keep(v, n) == v

\* Vec::truncate
truncate(v, n) == IF n < Len(v) THEN SubSeq(v, 1, n) ELSE v

-----------------------------------------------------------------------------
(* Input images: the byte buffers Fat16::new is run on.  The builders write  *)
(* the fields at the offsets the decoders read them from.                  *)

le16(v) == <<v % 256, (v \div 256) % 256>>

le32(v) == <<v % 256, (v \div 256) % 256, (v \div 65536) % 256, (v \div 16777216) % 256>>

fill(n, b) == [i \in 1..n |-> b]

pad(s, n, b) == s \o fill(n - Len(s), b)

RECURSIVE le16s(_)
le16s(units) == IF units = <<>> THEN <<>> ELSE le16(units[1]) \o le16s(Tail(units))

\* a short-name slot: 8.3 name, attribute, times and dates, first cluster, size
SfnSlot(base, ext, attribute, first_cluster, file_size) ==
    pad(base, 8, 32) \o pad(ext, 3, 32) \o <<attribute, 0, 100>>
    \o le16(43363) \o le16(22882) \o le16(22882) \o <<0, 0>>
    \o le16(43363) \o le16(22882) \o le16(first_cluster) \o le32(file_size)

\* a long-name slot: sequence byte, 5 + 6 + 2 code units, attribute 0x0F
LfnSlot(seq_no, units) ==
    <<seq_no>> \o le16s(SubSeq(units, 1, 5)) \o <<15, 0, 0>>
    \o le16s(SubSeq(units, 6, 11)) \o <<0, 0>> \o le16s(SubSeq(units, 12, 13))

\* a deleted slot: first byte 0xE5
DeletedSlot(slot) == <<229>> \o Tail(slot)

\* geometry of the images: 64-byte clusters, a table of 14 / 2 = 7 entries
\* (clusters 0..6) and a cluster region of 4 clusters (2..5)
Geo == [bytes_per_sector |-> 32, sectors_per_cluster |-> 2, num_fats |-> 2,
        sectors_per_fat |-> 1, root_entry_count |-> 4, total_sectors |-> 14,
        file_size |-> 70]

EOC == 65528

DirAttr == 16

ArchiveAttr == 32

\* names on the volume
N_1 == <<49>>                       \* "1"

N_TXT == <<84, 88, 84>>             \* "TXT"

N_D == <<68>>                       \* "D"

N_EMPTY == <<69, 77, 80, 84, 89>>   \* "EMPTY"

N_BAD1 == <<66, 65, 68, 49>>        \* "BAD1"

N_BAD6 == <<66, 65, 68, 54>>        \* "BAD6"

N_BAD9 == <<66, 65, 68, 57>>        \* "BAD9"

N_LONG1 == <<76, 79, 78, 71, 126, 49>>   \* "LONG~1"

\* "Long.txt", NUL, 0xFFFF padding
U_Long == <<76, 111, 110, 103, 46, 116, 120, 116, 0, 65535, 65535, 65535, 65535>>

\* the 36-byte BPB
MkBpb(img) ==
    <<235, 60, 144>> \o fill(8, 32) \o le16(Geo.bytes_per_sector) \o <<img.spc>>
    \o le16(1) \o <<Geo.num_fats>> \o le16(Geo.root_entry_count) \o le16(Geo.total_sectors)
    \o <<248>> \o le16(Geo.sectors_per_fat) \o le16(32) \o le16(64) \o le32(0) \o le32(0)

\* the 476-byte extended BPB, ending in the boot-partition signature
MkEbpb(img) ==
    <<128, 0, 41>> \o le32(51966) \o fill(11, 32) \o fill(8, 32)
    \o fill(448, 0) \o img.sig

\* the FAT region: entries 0 and 1 reserved, the links of clusters 2 and 3
\* drawn, the directory D in clusters 4 -> 5, entry 6 beyond the cluster region
MkFat(img) ==
    pad(le16s(<<EOC, 65535, img.t2, img.t3, 5, EOC, EOC>>),
        Geo.num_fats * Geo.sectors_per_fat * Geo.bytes_per_sector, 0)

\* the root directory region
MkRoot(img) ==
    SfnSlot(N_1, N_TXT, ArchiveAttr, img.fc, Geo.file_size)
    \o SfnSlot(N_D, <<>>, DirAttr, 4, 0)
    \o SfnSlot(N_EMPTY, N_TXT, ArchiveAttr, 0, 0)
    \o SfnSlot(N_BAD6, N_TXT, ArchiveAttr, 6, 3)

\* the cluster region: clusters 2 and 3 hold file data, clusters 4 and 5 are
\* the directory D
MkClusters(img) ==
    fill(64, 97) \o fill(64, 98)
    \o LfnSlot(65, U_Long) \o SfnSlot(N_LONG1, N_TXT, ArchiveAttr, 3, 5)
    \o SfnSlot(N_BAD1, N_TXT, ArchiveAttr, 1, 3)
    \o SfnSlot(N_BAD9, N_TXT, ArchiveAttr, 9, 3)

FullImage(img) == MkBpb(img) \o MkEbpb(img) \o MkFat(img) \o MkRoot(img) \o MkClusters(img)

\* the buffer: the image, cut to img.len bytes when img.len >= 0
ImageBytes(img) ==
    LET full == FullImage(img)
    IN IF img.len >= 0 /\ img.len < Len(full) THEN SubSeq(full, 1, img.len) ELSE full

\* link values drawn for clusters 2 and 3: free, reserved, a cycle, a next
\* cluster, a cluster beyond the region, bad cluster (0xFFF7), end of chain
Links2 == {0, 1, 2, 3, 6, 65527, EOC}

Links3 == {2, 5, EOC}

GoodSig == <<85, 170>>

StdImage == [sig |-> GoodSig, len |-> -1, spc |-> Geo.sectors_per_cluster,
             t2 |-> 3, t3 |-> EOC, fc |-> 2]

Images ==
    {[StdImage EXCEPT !.t2 = a, !.t3 = b, !.fc = c] :
        a \in Links2, b \in Links3, c \in {2, 3}}
    \cup {[StdImage EXCEPT !.sig = s, !.len = n] :
            s \in {GoodSig, <<0, 0>>}, n \in {-1, 0, 20, 36, 300, 512, 540, 576, 650, 704, 800}}
    \cup {[StdImage EXCEPT !.spc = 0]}

\* the paths handed to the operations
P_empty == <<>>                                              \* ""

P_root == <<47>>                                             \* "/"

P_file == <<47, 49, 46, 84, 88, 84>>                         \* "/1.TXT"

P_nosuch == <<47, 78, 111, 83, 117, 99, 104, 46, 116, 120, 116>>   \* "/NoSuch.txt"

P_nodir == <<47, 110, 111, 100, 105, 114, 47, 49, 46, 116, 120, 116>> \* "/nodir/1.txt"

P_dir == <<47, 100, 46>>                                     \* "/d."

P_dir_slash == <<47, 100, 46, 47>>                           \* "/d./"

P_long == <<47, 68, 46, 47, 108, 111, 110, 103, 46, 84, 88, 84>>   \* "/D./long.TXT"

P_dir_nosuch == <<47, 100, 46, 47, 110, 111, 115, 117, 99, 104>>   \* "/d./nosuch"

P_emptyfile == <<47, 101, 109, 112, 116, 121, 46, 116, 120, 116>>  \* "/empty.txt"

P_bad1 == <<47, 100, 46, 47, 98, 97, 100, 49, 46, 116, 120, 116>>   \* "/d./bad1.txt"

P_bad6 == <<47, 98, 97, 100, 54, 46, 116, 120, 116>>         \* "/bad6.txt"

P_bad9 == <<47, 100, 46, 47, 98, 97, 100, 57, 46, 116, 120, 116>>   \* "/d./bad9.txt"

P_thru_file == <<47, 49, 46, 116, 120, 116, 47, 120>>        \* "/1.txt/x"

Paths == {P_empty, P_root, P_file, P_nosuch, P_nodir, P_dir, P_dir_slash, P_long,
          P_dir_nosuch, P_emptyfile, P_bad1, P_bad6, P_bad9, P_thru_file}

Ops == {"read_file", "read_directory"}

\* the loop of get_cluster_chain is followed for at most MaxChain pushes
MaxChain == 9

-----------------------------------------------------------------------------
(* The facade: Fat16::new, then read_file / read_directory calls *)

NoFs == [none |-> TRUE]

NoEntry == [none |-> TRUE]

NotFound == "No such file or direcotry"

DecoderOff ==
    /\ region = <<>>
    /\ num_entry = 0
    /\ dpc = "off"
    /\ dresult = NoResult

Init ==
    /\ image \in Images
    /\ overflow_checks \in BOOLEAN
    /\ fs = NoFs
    /\ openResult = NoResult
    /\ pc = "closed"
    /\ op = "none"
    /\ path = <<>>
    /\ dirs = <<>>
    /\ seg = 0
    /\ entry = <<>>
    /\ target = NoEntry
    /\ mode = "none"
    /\ chain = <<>>
    /\ cluster = 0
    /\ k = 0
    /\ acc = <<>>
    /\ result = NoResult
    /\ reads = <<>>
    /\ DecoderOff

\* Fat16::new(path)
Open ==
    /\ pc = "closed"
    /\ \E r \in {Fat16_new(ImageBytes(image), overflow_checks)} :
          /\ openResult' = IF r.tag = "Ok" THEN [tag |-> "Ok"] ELSE r
          /\ fs' = IF r.tag = "Ok" THEN r.val ELSE NoFs
          /\ pc' = IF r.tag = "Ok" THEN "idle" ELSE "failed"
    /\ UNCHANGED <<image, op, path, dirs, seg, entry, target, mode, chain, cluster,
                   k, acc, result, reads, overflow_checks>>
    /\ UNCHANGED decoderVars

\* the call ends with outcome r
Finish(r) ==
    /\ result' = r
    /\ pc' = "done"

\* get_cluster_chain(e.first_cluster as u16) starts
StartChain(e, m) ==
    /\ target' = e
    /\ mode' = m
    /\ chain' = <<>>
    /\ cluster' = e.first_cluster % 65536
    /\ pc' = "chain"

\* read_file(&path.into()) / read_directory(&path.into()) is called:
\* find_dir_entry parses the path and starts from the root directory
Call(o, p) ==
    /\ pc = "idle"
    /\ op' = o
    /\ path' = p
    /\ reads' = <<>>
    /\ LET d == Path_parse(Path_from(p))
       IN IF d.tag # "Ok"
          THEN /\ Finish(d)
               /\ UNCHANGED <<dirs, seg, entry>>
          ELSE /\ dirs' = d.val
               /\ seg' = 1
               /\ entry' = fs.root_dir
               /\ pc' = "find"
               /\ UNCHANGED result
    /\ UNCHANGED <<image, fs, openResult, target, mode, chain, cluster, k, acc,
                   overflow_checks>>
    /\ UNCHANGED decoderVars

\* find_dir_entry: one segment is looked up in the current listing
FindStep ==
    /\ pc = "find"
    /\ LET d == find(entry, dirs[seg])
       IN IF ~d.some
          THEN /\ Finish(Err(NotFound))
               /\ UNCHANGED <<target, mode, chain, cluster>>
          ELSE /\ StartChain(d.val,
                     IF seg < Len(dirs) THEN "descend"
                     ELSE IF op = "read_file" THEN "file" ELSE "list")
               /\ UNCHANGED result
    /\ UNCHANGED <<image, fs, openResult, op, path, dirs, seg, entry, k, acc, reads,
                   overflow_checks>>
    /\ UNCHANGED decoderVars

\* get_cluster_chain: one turn of `while cluster < 0xFFF8`, or its exit
ChainStep ==
    /\ pc = "chain"
    /\ IF cluster < EOC
       THEN /\ Len(chain) < MaxChain
            /\ chain' = Append(chain, cluster)
            /\ LET t == table_lookup(fs, cluster)
               IN IF t.tag # "Ok"
                  THEN /\ Finish(t)
                       /\ UNCHANGED cluster
                  ELSE /\ cluster' = t.val
                       /\ UNCHANGED <<pc, result>>
            /\ UNCHANGED <<k, acc>>
       ELSE /\ pc' = "read"
            /\ k' = 1
            /\ acc' = <<>>
            /\ UNCHANGED <<chain, cluster, result>>
    /\ UNCHANGED <<image, fs, openResult, op, path, dirs, seg, entry, target, mode,
                   reads, overflow_checks>>
    /\ UNCHANGED decoderVars

\* read_file / read_dir_entry: one turn of `for cluster_number in cluster_chain`
ReadStep ==
    /\ pc = "read"
    /\ k <= Len(chain)
    /\ reads' = Append(reads, chain[k])
    /\ LET c == read_cluster(fs, chain[k], overflow_checks)
       IN IF c.tag # "Ok"
          THEN /\ Finish(c)
               /\ UNCHANGED <<k, acc>>
          ELSE IF mode = "file"
          THEN /\ acc' = acc \o c.val
               /\ k' = k + 1
               /\ UNCHANGED <<pc, result>>
          ELSE LET d == parses(c.val, (bytes_per_cluster(fs) \div 32) % 65536,
                               overflow_checks)
               IN IF d.tag # "Ok"
                  THEN /\ Finish(d)
                       /\ UNCHANGED <<k, acc>>
                  ELSE /\ acc' = acc \o d.val[1]
                       /\ k' = k + 1
                       /\ UNCHANGED <<pc, result>>
    /\ UNCHANGED <<image, fs, openResult, op, path, dirs, seg, entry, target, mode,
                   chain, cluster, overflow_checks>>
    /\ UNCHANGED decoderVars

\* the loop over the chain is over: read_file truncates and returns, read_directory
\* returns the listing, find_dir_entry goes on to the next segment
ReadEnd ==
    /\ pc = "read"
    /\ k > Len(chain)
    /\ IF mode = "file"
       THEN /\ Finish(Ok(truncate(acc, target.file_size)))
            /\ UNCHANGED <<seg, entry>>
       ELSE IF mode = "list"
       THEN /\ Finish(Ok(acc))
            /\ UNCHANGED <<seg, entry>>
       ELSE /\ entry' = acc
            /\ seg' = seg + 1
            /\ pc' = "find"
            /\ UNCHANGED result
    /\ UNCHANGED <<image, fs, openResult, op, path, dirs, target, mode, chain, cluster,
                   k, acc, reads, overflow_checks>>
    /\ UNCHANGED decoderVars

\* the caller has the outcome; the facade is ready for the next call
Return ==
    /\ pc = "done"
    /\ result.tag # "Panic"
    /\ pc' = "idle"
    /\ op' = "none"
    /\ path' = <<>>
    /\ dirs' = <<>>
    /\ seg' = 0
    /\ entry' = <<>>
    /\ target' = NoEntry
    /\ mode' = "none"
    /\ chain' = <<>>
    /\ cluster' = 0
    /\ k' = 0
    /\ acc' = <<>>
    /\ result' = NoResult
    /\ reads' = <<>>
    /\ UNCHANGED <<image, fs, openResult, overflow_checks>>
    /\ UNCHANGED decoderVars

Next ==
    \/ Open
    \/ \E o \in Ops, p \in Paths : Call(o, p)
    \/ FindStep
    \/ ChainStep
    \/ ReadStep
    \/ ReadEnd
    \/ Return

Spec == Init /\ [][Next]_vars

-----------------------------------------------------------------------------
(* The directory decoder on its own: FatDirEntry::parses applied to byte   *)
(* regions made of up to MaxSlots slots drawn from SlotKinds.              *)

N_A == <<65>>        \* "A"

N_B == <<66>>        \* "B"

\* "b.c", NUL, 0xFFFF padding: the last fragment of a name, first on disk
U_tail == <<98, 46, 99, 0, 65535, 65535, 65535, 65535, 65535, 65535, 65535, 65535, 65535>>

\* "abcdefghijklm": a fragment filled with 13 characters
U_full == <<97, 98, 99, 100, 101, 102, 103, 104, 105, 106, 107, 108, 109>>

\* "x", 0xFFFF, NUL, ...: a padding unit in front of the terminator
U_ffff == <<120, 65535, 0, 65535, 65535, 65535, 65535, 65535, 65535, 65535, 65535, 65535, 65535>>

\* an unpaired high surrogate
U_bad == <<55296, 0, 65535, 65535, 65535, 65535, 65535, 65535, 65535, 65535, 65535, 65535, 65535>>

SlotKinds ==
    << SfnSlot(N_A, N_TXT, ArchiveAttr, 2, 5),
       SfnSlot(N_D, <<>>, DirAttr, 3, 0),
       DeletedSlot(SfnSlot(N_B, N_TXT, ArchiveAttr, 4, 7)),
       fill(32, 0),
       LfnSlot(65, U_tail),
       LfnSlot(1, U_full),
       LfnSlot(65, U_ffff),
       LfnSlot(65, U_bad) >>

MaxSlots == 4

RECURSIVE concat(_)
concat(ss) == IF ss = <<>> THEN <<>> ELSE ss[1] \o concat(Tail(ss))

\* the region made of the slots of the given kinds
RegionOf(kinds) == concat([i \in 1..Len(kinds) |-> SlotKinds[kinds[i]]])

FacadeOff ==
    /\ image = StdImage
    /\ fs = NoFs
    /\ openResult = NoResult
    /\ pc = "off"
    /\ op = "none"
    /\ path = <<>>
    /\ dirs = <<>>
    /\ seg = 0
    /\ entry = <<>>
    /\ target = NoEntry
    /\ mode = "none"
    /\ chain = <<>>
    /\ cluster = 0
    /\ k = 0
    /\ acc = <<>>
    /\ result = NoResult
    /\ reads = <<>>
    /\ overflow_checks = TRUE

DirInit ==
    /\ \E n \in 1..MaxSlots :
          \E f \in [1..n -> 1..Len(SlotKinds)] :
             /\ region = RegionOf(f)
             /\ num_entry \in {n - 1, n, n + 1}
    /\ dpc = "start"
    /\ dresult = NoResult
    /\ FacadeOff

\* FatDirEntry::parses(&region, num_entry)
ParsesCall ==
    /\ dpc = "start"
    /\ dresult' = parses(region, num_entry, overflow_checks)
    /\ dpc' = "done"
    /\ UNCHANGED <<region, num_entry>>
    /\ UNCHANGED facadeVars

DirNext == ParsesCall

SpecDir == DirInit /\ [][DirNext]_vars

-----------------------------------------------------------------------------
(* Properties of the facade, stated over the image and the facade alone *)

Min(a, b) == IF a < b THEN a ELSE b

\* the first n elements of s, or s when it is shorter
Take(s, n) == SubSeq(s, 1, Min(n, Len(s)))

\* the directory attribute bit 0x10
IsDirectory(e) == (e.attribute \div DirAttr) % 2 = 1

\* chain_from(start): start, table[start], ... cut before the first link >= 0xFFF8
\* (followed for at most `fuel` links)
RECURSIVE ChainFrom(_, _)
ChainFrom(c, fuel) ==
    IF c >= EOC \/ fuel = 0 THEN <<>>
    ELSE IF c >= Len(fs.alloc_table) THEN <<c>>
    ELSE <<c>> \o ChainFrom(fs.alloc_table[c + 1], fuel - 1)

\* cluster_bytes(n): bytes [(n-2) * bytes_per_cluster, (n-1) * bytes_per_cluster)
\* of the cluster region
ClusterBytes(n) ==
    LET bpc == fs.bpb.bytes_per_sector * fs.bpb.sectors_per_cluster
    IN SubSeq(fs.clusters, (n - 2) * bpc + 1, (n - 1) * bpc)

RECURSIVE ChainBytes(_)
ChainBytes(c) == IF c = <<>> THEN <<>> ELSE ClusterBytes(c[1]) \o ChainBytes(Tail(c))

\* the call has returned or faulted, and the path had resolved to `target`
FileCallOver == pc = "done" /\ op = "read_file" /\ mode = "file"

ListCallOver == pc = "done" /\ op = "read_directory" /\ mode = "list"

\* C1: a read_file whose path resolves to an entry of file_size s and that
\* succeeds returns exactly s bytes, also when the entry's cluster chain holds
\* fewer than s bytes; and the read of an empty file (file_size 0,
\* first_cluster 0) succeeds with no bytes.
C1_LengthIsFileSize ==
    FileCallOver =>
        /\ result.tag = "Ok" => Len(result.val) = target.file_size
        /\ (target.file_size = 0 /\ target.first_cluster = 0) => result = Ok(<<>>)

\* C2: the bytes a successful read_file returns are the cluster_bytes of the
\* clusters of chain_from(first_cluster), concatenated in chain order and
\* truncated to file_size.
C2_ChainOrderTruncated ==
    (FileCallOver /\ result.tag = "Ok") =>
        result.val = Take(ChainBytes(ChainFrom(target.first_cluster,
                                               Len(fs.alloc_table) + 1)),
                          target.file_size)

\* a file of two clusters whose chain runs against the cluster numbers and
\* whose data is cut to file_size
C2_Witness ==
    /\ FileCallOver
    /\ result.tag = "Ok"
    /\ Len(chain) = 2
    /\ chain[1] > chain[2]
    /\ Len(acc) > target.file_size
    /\ Len(result.val) = target.file_size

\* bytes 510..512 of the buffer are 55 AA
SignatureOk(b) == Len(b) >= 512 /\ SubSeq(b, 511, 512) = GoodSig

\* the buffer holds the boot sector, the FAT region and the root directory
LengthOk(b) ==
    Len(b) >= 512 + Geo.num_fats * Geo.sectors_per_fat * Geo.bytes_per_sector
              + Geo.root_entry_count * 32

\* C3: Fat16::new succeeds iff the signature is 55 AA and the buffer is long
\* enough, and in every other case returns an error value (no facade, no fault).
C3_OpenIffValid ==
    pc # "closed" =>
        /\ openResult.tag = "Ok" <=>
              (SignatureOk(ImageBytes(image)) /\ LengthOk(ImageBytes(image)))
        /\ openResult.tag # "Ok" => openResult.tag = "Err"

\* C4: read_directory("/") succeeds and returns the root directory entry list
\* decoded at open time, reading no cluster.
C4_RootListing ==
    (pc = "done" /\ op = "read_directory" /\ path = P_root) =>
        (result = Ok(fs.root_dir) /\ reads = <<>>)

\* no entry of the listing has the (lowercased) name dir
NoMatch(entries, dir) ==
    \A i \in 1..Len(entries) : to_ascii_lowercase(entries[i].name) # dir

\* C5: when the segment being resolved matches no entry of the directory being
\* searched, the call ends there with the NotFound error and reads no further
\* cluster.
C5_NotFound ==
    [][(pc = "find" /\ NoMatch(entry, dirs[seg]))
         => (pc' = "done" /\ result' = Err(NotFound) /\ reads' = reads)]_vars

\* a non-terminal segment that matches nothing: the call is over with NotFound
\* and has read no cluster
C5_Witness ==
    /\ pc = "done"
    /\ result = Err(NotFound)
    /\ seg < Len(dirs)
    /\ NoMatch(entry, dirs[seg])
    /\ reads = <<>>

\* C6: read_file on a directory entry and read_directory on a non-directory
\* entry return an error, never data (calls that fault while following the
\* chain set aside).
C6_KindChecked ==
    /\ (FileCallOver /\ IsDirectory(target) /\ result.tag # "Panic")
          => result.tag = "Err"
    /\ (ListCallOver /\ ~IsDirectory(target) /\ result.tag # "Panic")
          => result.tag = "Err"

\* C7: every entry of a successful read_directory has first_cluster 0 or
\* 2 <= first_cluster < cluster_count.
C7_FirstClusterInRange ==
    (ListCallOver /\ result.tag = "Ok" /\ IsDirectory(target)) =>
        \A i \in 1..Len(result.val) :
            \/ result.val[i].first_cluster = 0
            \/ /\ result.val[i].first_cluster >= 2
               /\ result.val[i].first_cluster < Len(fs.alloc_table)

\* C10: cluster-chain traversal ends after a bounded number of steps.  A
\* traversal that ends never emits a cluster twice (the next cluster is a
\* function of the current one), so it emits at most cluster_count clusters.
C10_ChainTerminates ==
    pc = "chain" => Len(chain) <= Len(fs.alloc_table)

\* ASCII case folding of a sequence of code points
Lower(s) == [i \in 1..Len(s) |-> IF s[i] \in 65..90 THEN s[i] + 32 ELSE s[i]]

\* segment n of the path as the caller wrote it (no folding): the text between
\* the n-th and the (n+1)-th '/'
RawSegment(p, n) == split(Tail(p))[n]

\* the entries of the listing whose presentation name folds to the folded segment
FoldedHits(entries, segment) ==
    {i \in 1..Len(entries) : Lower(entries[i].name) = Lower(segment)}

\* C11: a path segment matches a directory entry exactly when the
\* ASCII-lowercased name of the entry equals the ASCII-lowercased segment as
\* the caller wrote it: the lookup of a segment selects the first entry whose
\* folded name equals the folded segment, and fails with NotFound when there is
\* none, so the letter case of the path makes no difference.
C11_CaseInsensitive ==
    [][pc = "find" =>
          LET hits == FoldedHits(entry, RawSegment(path, seg))
          IN IF hits = {}
             THEN pc' = "done" /\ result' = Err(NotFound)
             ELSE target' = entry[CHOOSE i \in hits : \A j \in hits : i <= j]]_vars

\* "/D./long.TXT" has resolved to the entry named "Long.txt" and been read:
\* path and name differ in letter case in both directions
C11_Witness ==
    /\ pc = "done"
    /\ op = "read_file"
    /\ path = P_long
    /\ result.tag = "Ok"
    /\ target # NoEntry
    /\ target.name = <<76, 111, 110, 103, 46, 116, 120, 116>>
    /\ target.name # RawSegment(path, 2)

\* a call is following, or has followed, a cluster chain
ChainSeen == pc \in {"chain", "read", "done"}

\* C12: traversal from any start over any allocation table emits start,
\* table[start], ... cut before the first value >= 0xFFF8: every emitted value
\* is < 0xFFF8, the returned chain is that sequence (empty when start >= 0xFFF8),
\* and every value it looks up in the table is an index of the table.
C12_ChainFrom ==
    ChainSeen =>
        /\ \A i \in 1..Len(chain) : chain[i] < EOC
        /\ \A i \in 1..Len(chain) : chain[i] < Len(fs.alloc_table)
        /\ pc = "read" =>
              /\ chain = ChainFrom(target.first_cluster, Len(chain) + 1)
              /\ target.first_cluster >= EOC => chain = <<>>

\* C13: a FAT link value 0xFFF7 (bad cluster) ends the chain: cluster number
\* 0xFFF7 is never emitted by the traversal (hence never looked up in the table)
\* and never handed to read_cluster.
C13_BadClusterEndsChain ==
    ChainSeen =>
        /\ \A i \in 1..Len(chain) : chain[i] # 65527
        /\ \A i \in 1..Len(reads) : reads[i] # 65527

\* the bytes of cluster n lie inside the cluster region
ClusterInRegion(n) ==
    /\ n >= 2
    /\ (n - 1) * fs.bpb.bytes_per_sector * fs.bpb.sectors_per_cluster <= Len(fs.clusters)

\* the cluster number most recently handed to read_cluster
LastRead == reads[Len(reads)]

\* C14: read_cluster(n) returns exactly bytes [(n-2)*bpc, (n-1)*bpc) of the
\* cluster region when that range lies inside the region (so the bytes
\* gathered by read_file are those of the clusters read so far), and for every
\* other n, the reserved numbers 0 and 1 included, the call ends with the
\* out-of-range error as a value.
C14_ClusterBytes ==
    /\ (pc = "read" /\ mode = "file") =>
          acc = ChainBytes(SubSeq(chain, 1, k - 1))
    /\ (pc = "done" /\ reads # <<>> /\ ~ClusterInRegion(LastRead)) =>
          result = Err("Cluster number out of range")

\* C15: path resolution descends into the entry matched by a non-terminal
\* segment only when the entry has the directory attribute: the clusters of a
\* regular file are never followed and decoded as directory slots.
C15_DescendOnlyIntoDirectory ==
    (ChainSeen /\ mode = "descend" /\ reads # <<>>) => IsDirectory(target)

\* the path ends in '/' after at least one other character
TrailingSlash(p) == Len(p) >= 2 /\ p[Len(p)] = 47

\* a path that names no file and no directory to read: the empty path, the
\* root-only path for read_file, a path with an empty final segment
InvalidPath(o, p) ==
    \/ p = <<>>
    \/ (p = <<47>> /\ o = "read_file")
    \/ TrailingSlash(p)

\* C18: the segments resolved are those of the lowercased path without its
\* leading '/', split on '/'; and a call given the empty path, the root-only
\* path (read_file) or a path with a trailing '/' ends with an error value: it
\* does not fault and its final segment matches no entry.
C18_InvalidPathIsError ==
    /\ pc \in {"find", "chain", "read"} => dirs = split(Lower(Tail(path)))
    /\ (pc = "done" /\ InvalidPath(op, path)) =>
          (result.tag = "Err" /\ mode \notin {"file", "list"})

-----------------------------------------------------------------------------
(* Properties of the directory decoder, stated over the slots of the region *)

\* slot i (1-based) of the region
SlotAt(i) == SubSeq(region, 32 * (i - 1) + 1, 32 * i)

\* the slots parses is asked to decode
Slots == 1..num_entry

IsLfnSlot(i) == SlotAt(i)[12] = 15

IsDeletedSlot(i) == ~IsLfnSlot(i) /\ SlotAt(i)[1] = 229

IsFreeSlot(i) == ~IsLfnSlot(i) /\ SlotAt(i)[1] = 0

\* a short-name slot that is neither deleted nor free
IsLiveSlot(i) == ~IsLfnSlot(i) /\ SlotAt(i)[1] \notin {0, 229}

\* the live slots, in disk order
RECURSIVE LiveFrom(_)
LiveFrom(i) ==
    IF i > num_entry THEN <<>>
    ELSE IF IsLiveSlot(i) THEN <<i>> \o LiveFrom(i + 1)
    ELSE LiveFrom(i + 1)

LiveSlots == LiveFrom(1)

\* the first slot of the run of LFN fragments that ends right before slot i
\* (i itself when no fragment precedes it)
RunStart(i) ==
    CHOOSE j \in 1..i :
        /\ \A h \in j..(i - 1) : IsLfnSlot(h)
        /\ (j = 1 \/ ~IsLfnSlot(j - 1))

\* the 13 code units of LFN slot i: offsets 1..11, 14..26, 28..32
UnitOffsets == <<1, 3, 5, 7, 9, 14, 16, 18, 20, 22, 24, 28, 30>>

Units(i) ==
    [u \in 1..13 |-> SlotAt(i)[UnitOffsets[u] + 1] + 256 * SlotAt(i)[UnitOffsets[u] + 2]]

\* the units of the fragments j..i, the last on disk first
RECURSIVE UnitsReversed(_, _)
UnitsReversed(j, i) ==
    IF i < j THEN <<>> ELSE Units(i) \o UnitsReversed(j, i - 1)

RECURSIVE UpToNul(_)
UpToNul(u) == IF u = <<>> \/ u[1] = 0 THEN <<>> ELSE <<u[1]>> \o UpToNul(Tail(u))

RECURSIVE DropTrailingSpaces(_)
DropTrailingSpaces(b) ==
    IF b # <<>> /\ b[Len(b)] = 32 THEN DropTrailingSpaces(SubSeq(b, 1, Len(b) - 1))
    ELSE b

\* base.ext of short-name slot i
ShortName(i) ==
    DropTrailingSpaces(SubSeq(SlotAt(i), 1, 8)) \o <<46>>
    \o DropTrailingSpaces(SubSeq(SlotAt(i), 9, 11))

LfnNamed(i) == RunStart(i) < i

\* the name live slot i is to be listed under
OwnName(i) ==
    IF LfnNamed(i) THEN UpToNul(UnitsReversed(RunStart(i), i - 1)) ELSE ShortName(i)

DecodeOk == dpc = "done" /\ dresult.tag = "Ok"

\* the entries parses returned
Decoded == dresult.val[1]

\* C8: the name of every entry named from LFN fragments holds no NUL and no
\* 0xFFFF code unit, whatever the fragments hold.
C8_NoNulNoPadding ==
    (DecodeOk /\ Len(Decoded) = Len(LiveSlots)) =>
        \A m \in 1..Len(Decoded) :
            LfnNamed(LiveSlots[m]) =>
                \A c \in 1..Len(Decoded[m].name) :
                    Decoded[m].name[c] # 0 /\ Decoded[m].name[c] # 65535

\* C9: when the region holds a deleted (0xE5) short-name slot, that slot and
\* the LFN fragments in front of it give no entry, and the live slots before
\* and after it are returned once each, in disk order, each under its own name
\* and with its own fields.
C9_DeletedSkipped ==
    (DecodeOk /\ \E i \in Slots : IsDeletedSlot(i)) =>
        /\ Len(Decoded) = Len(LiveSlots)
        /\ \A m \in 1..Len(Decoded) :
              /\ Decoded[m].name = OwnName(LiveSlots[m])
              /\ Decoded[m].attribute = SlotAt(LiveSlots[m])[12]
              /\ Decoded[m].first_cluster
                    = SlotAt(LiveSlots[m])[27] + 256 * SlotAt(LiveSlots[m])[28]
              /\ Decoded[m].file_size = SlotAt(LiveSlots[m])[29]

\* a live slot, an LFN fragment, a deleted slot, a live slot: two entries
C9_Witness ==
    /\ DecodeOk
    /\ num_entry = 4
    /\ IsLiveSlot(1) /\ IsLfnSlot(2) /\ IsDeletedSlot(3) /\ IsLiveSlot(4)
    /\ Len(Decoded) = 2
    /\ Decoded[1].name # Decoded[2].name


\* entry m of the decoded list carries the fields of the m-th live slot
FieldsOfLiveSlot(m) ==
    /\ Decoded[m].attribute = SlotAt(LiveSlots[m])[12]
    /\ Decoded[m].first_cluster
          = SlotAt(LiveSlots[m])[27] + 256 * SlotAt(LiveSlots[m])[28]
    /\ Decoded[m].file_size = SlotAt(LiveSlots[m])[29]

\* C16: a slot whose first byte is 0x00 gives no entry and does not end the
\* scan: when the region holds such a slot, the entries returned are those of
\* all the live slots among the num_entry slots, the ones after the 0x00 slot
\* included, in disk order.
C16_FreeSlotDoesNotHalt ==
    (DecodeOk /\ \E i \in Slots : IsFreeSlot(i)) =>
        /\ Len(Decoded) = Len(LiveSlots)
        /\ \A m \in 1..Len(Decoded) : FieldsOfLiveSlot(m)

\* a live slot, a 0x00 slot, two live slots of different kinds: three entries,
\* two of them from behind the 0x00 slot
C16_Witness ==
    /\ DecodeOk
    /\ num_entry = 4
    /\ IsLiveSlot(1) /\ IsFreeSlot(2) /\ IsLiveSlot(3) /\ IsLiveSlot(4)
    /\ Len(Decoded) = 3
    /\ Decoded[2].first_cluster # Decoded[3].first_cluster


\* C17: an entry decoded from a live short-name slot preceded by k >= 1
\* consecutive LFN fragments is named by the 13 code units of each fragment,
\* the fragments taken last-on-disk first, cut at the first NUL; that name
\* stands in place of base.ext, and the other fields are those of the
\* short-name slot.
C17_LfnNameAssembly ==
    DecodeOk =>
        /\ Len(Decoded) = Len(LiveSlots)
        /\ \A m \in 1..Len(Decoded) :
              LfnNamed(LiveSlots[m]) =>
                 /\ Decoded[m].name
                       = UpToNul(UnitsReversed(RunStart(LiveSlots[m]), LiveSlots[m] - 1))
                 /\ FieldsOfLiveSlot(m)

\* two fragments in front of a live slot: "b.c" first on disk, then
\* "abcdefghijklm"; the entry is named "abcdefghijklmb.c", not "A.TXT"
C17_Witness ==
    /\ DecodeOk
    /\ num_entry >= 3
    /\ IsLfnSlot(1) /\ IsLfnSlot(2) /\ IsLiveSlot(3)
    /\ Units(1) # Units(2)
    /\ Len(Decoded) >= 1
    /\ Len(Decoded[1].name) = 16
    /\ Decoded[1].name[1] = 97
    /\ Decoded[1].name # ShortName(3)


\* C19: for every region and every num_entry with num_entry * 32 <= length of
\* the region, parses returns without faulting; when it returns entries there
\* are at most num_entry of them and the remainder is the region from offset
\* num_entry * 32 -- also when a run of LFN fragments reaches the last of the
\* num_entry slots.
C19_ParsesStaysInRegion ==
    (dpc = "done" /\ num_entry * 32 <= Len(region)) =>
        /\ dresult.tag # "Panic"
        /\ dresult.tag = "Ok" =>
              /\ Len(dresult.val[1]) <= num_entry
              /\ dresult.val[2] = SubSeq(region, num_entry * 32 + 1, Len(region))

====
